---- MODULE Spec2Model ----
(***************************************************************************)
(* The CAN converter of internal/converter/can/converter.go:               *)
(*   NewConverter / addMessageDb build the ID-indexed message table from   *)
(*   one DBC file or a directory of DBC files;                             *)
(*   Converter.Decode parses a JSON batch of frames (fastjson), decodes    *)
(*   the hex payloads and dispatches every frame to its message schema;    *)
(*   Converter.Encode is a stub.                                           *)
(* The file holds two versions of the converter; the model follows the     *)
(* later one (lines 145-333), whose Decode reads the document with         *)
(* fastjson.                                                               *)
(* A JSON document is modelled by its parsed shape (which keys are there,  *)
(* of which JSON type, with which value), a DBC file by what reading and   *)
(* compiling it yields.  A Go panic is an outcome of the call of its own,  *)
(* distinct from a returned error.                                         *)
(***************************************************************************)
EXTENDS Integers, Sequences, FiniteSets, TLC

VARIABLES
    intSize,    \* bits of Go's uint on the build's platform (32 or 64)
    ctor,       \* NewConverter: its position, its argument and its locals
    messages,   \* Converter.messages
    call        \* per caller: the Decode/Encode call in progress

vars == <<intSize, ctor, messages, call>>

-----------------------------------------------------------------------------
(* Bounds of the model *)

MaxSources == 2        \* entries of the scanned directory
MaxMessages == 1       \* messages of one compiled DBC file
MaxFrames == 2         \* elements of the frames array
MaxHexLen == 2         \* characters of a data string
NumCallers == 2        \* concurrent callers of Decode

(* Program constants *)

DataLen == 8           \* can.Data is [8]byte

MessageIDs == {1, 2}
SignalNames == {"a", "b"}

SeqsUpTo(S, n) == UNION {[1..k -> S] : k \in 0..n}

EmptyMap == [x \in {} |-> x]

-----------------------------------------------------------------------------
(* The message table: NewConverter and addMessageDb *)

\* *descriptor.Message: its ID and the signal its schema defines
Message == [ID : MessageIDs, Sig : SignalNames]

\* A directory entry or the single file: whether its extension is .dbc
\* (case-insensitively), whether it can be opened and read, whether
\* generate.Compile accepts it, and c.Database.Messages.  A file that is
\* read is read whole by the one f.Read; an empty one counts as not read
\* (f.Read gives io.EOF).
DbcFiles ==
    {[isDbc |-> TRUE, read |-> FALSE, compile |-> FALSE, msgs |-> <<>>]}
    \cup {[isDbc |-> d, read |-> TRUE, compile |-> FALSE, msgs |-> <<>>] : d \in BOOLEAN}
    \cup {[isDbc |-> TRUE, read |-> TRUE, compile |-> TRUE, msgs |-> s] :
             s \in SeqsUpTo(Message, MaxMessages)}

\* dbcPath: missing, a regular file, or a directory with its entries in
\* filepath.Walk's (lexical) order
DbcPaths ==
    {[kind |-> "missing", files |-> <<>>]}
    \cup {[kind |-> "file", files |-> <<f>>] : f \in DbcFiles}
    \cup {[kind |-> "dir", files |-> fs] : fs \in SeqsUpTo(DbcFiles, MaxSources)}

\* Insert as it would be without the presence test: the later definition of
\* an ID replaces the earlier one
InsertOverwrite(mm, m) == (m.ID :> m) @@ mm

\* if _, ok := mm[m.ID]; !ok { mm[m.ID] = m }
Insert(mm, m) == IF m.ID \in DOMAIN mm THEN mm ELSE mm @@ (m.ID :> m)

RECURSIVE MergeMessages(_, _)
\* for _, m := range c.Database.Messages
MergeMessages(mm, msgs) ==
    IF msgs = <<>> THEN mm
    ELSE MergeMessages(Insert(mm, Head(msgs)), Tail(msgs))

\* addMessageDb: a compile error leaves mm as it was
addMessageDb(mm, file) ==
    IF ~file.compile THEN [err |-> TRUE, mm |-> mm]
    ELSE [err |-> FALSE, mm |-> MergeMessages(mm, file.msgs)]

\* the Walk callback: the entries whose extension equals .dbc
Walk(path) == SelectSeq(path.files, LAMBDA f : f.isDbc)

\* one iteration of "for _, file := range files", and os.ReadFile + addMessageDb
LoadFile(mm, file) ==
    IF ~file.read THEN [err |-> TRUE, mm |-> mm] ELSE addMessageDb(mm, file)

RECURSIVE LoadFiles(_, _)
LoadFiles(mm, files) ==
    IF files = <<>> THEN [err |-> FALSE, mm |-> mm]
    ELSE LET r == LoadFile(mm, Head(files))
         IN IF r.err THEN r ELSE LoadFiles(r.mm, Tail(files))

\* NewConverter as a function of what dbcPath holds
NewConverter(path) ==
    CASE path.kind = "missing" -> [err |-> TRUE, mm |-> EmptyMap]
      [] path.kind = "dir" -> LoadFiles(EmptyMap, Walk(path))
      [] OTHER -> LoadFile(EmptyMap, path.files[1])

CtorStart(path) ==
    [pc |-> "start", path |-> path, files |-> <<>>, n |-> 1, mm |-> EmptyMap]

\* os.Stat(dbcPath), mm := make(...), and the Walk of a directory
Stat ==
    /\ ctor.pc = "start"
    /\ ctor' = CASE ctor.path.kind = "missing" -> [ctor EXCEPT !.pc = "failed"]
                 [] ctor.path.kind = "dir" ->
                        [ctor EXCEPT !.pc = "loop", !.files = Walk(ctor.path)]
                 [] OTHER ->
                        [ctor EXCEPT !.pc = "loop", !.files = ctor.path.files]
    /\ UNCHANGED <<intSize, messages, call>>

\* the next file is read and merged; an error ends NewConverter
LoadNext ==
    /\ ctor.pc = "loop"
    /\ ctor.n <= Len(ctor.files)
    /\ LET r == LoadFile(ctor.mm, ctor.files[ctor.n])
       IN ctor' = IF r.err THEN [ctor EXCEPT !.pc = "failed"]
                  ELSE [ctor EXCEPT !.mm = r.mm, !.n = ctor.n + 1]
    /\ UNCHANGED <<intSize, messages, call>>

\* return &Converter{messages: mm}, nil
Construct ==
    /\ ctor.pc = "loop"
    /\ ctor.n > Len(ctor.files)
    /\ ctor' = [ctor EXCEPT !.pc = "ready"]
    /\ messages' = ctor.mm
    /\ UNCHANGED <<intSize, call>>

-----------------------------------------------------------------------------
(* The input of Decode: a JSON document by its parsed shape *)

\* A number is kept as three base-2^32 digits <<d2, d1, d0>>, its value
\* d2 * 2^64 + d1 * 2^32 + d0, so that widths of 32 and 64 bits are exact.
IdUint(d2, d1, d0) == [kind |-> "uint", w |-> <<d2, d1, d0>>]
IdOther(k) == [kind |-> k, w |-> <<0, 0, 0>>]

\* the "id" member of a frame element: absent, not a number (a string), a
\* number that is no unsigned integer (-1, 1.5), or an unsigned integer
IdFields ==
    {IdOther("absent"), IdOther("notnumber"), IdOther("notuint"),
     IdUint(0, 0, 1), IdUint(0, 0, 2), IdUint(0, 1, 1), IdUint(1, 0, 0)}

HexAlphabet == {"1", "g"}

\* the "data" member: absent, not a string, or a string of characters
DataFields(maxLen) ==
    {[kind |-> "absent", s |-> <<>>], [kind |-> "notstring", s |-> <<>>]}
    \cup {[kind |-> "string", s |-> s] : s \in SeqsUpTo(HexAlphabet, maxLen)}

\* an element of the frames array: an object, or another JSON value
Elements(ids, datas) ==
    {[kind |-> "notobject", id |-> IdOther("absent"),
      data |-> [kind |-> "absent", s |-> <<>>]]}
    \cup {[kind |-> "object", id |-> i, data |-> d] : i \in ids, d \in datas}

FramesFields(elems, maxFrames) ==
    {[kind |-> "absent", elems |-> <<>>], [kind |-> "notarray", elems |-> <<>>]}
    \cup {[kind |-> "array", elems |-> es] : es \in SeqsUpTo(elems, maxFrames)}

\* the "meta" member: absent, not an object, or an object with its members
\* (key, JSON type) in order
MetaObject(entries) == [kind |-> "object", entries |-> entries]
MetaFields ==
    {[kind |-> "absent", entries |-> <<>>],
     [kind |-> "notobject", entries |-> <<>>],
     MetaObject(<<>>),
     MetaObject(<<[k |-> "ts", t |-> "number"], [k |-> "src", t |-> "null"]>>)}

NoFrames == [kind |-> "absent", elems |-> <<>>]
NoMeta == [kind |-> "absent", entries |-> <<>>]

\* b []byte: not JSON at all, a JSON value that is no object, or an object
BatchesOf(framesFields, metaFields) ==
    {[top |-> t, frames |-> NoFrames, meta |-> NoMeta] : t \in {"malformed", "notobject"}}
    \cup {[top |-> "object", frames |-> f, meta |-> m] :
             f \in framesFields, m \in metaFields}

Batches ==
    BatchesOf(FramesFields(Elements(IdFields, DataFields(MaxHexLen)), MaxFrames),
              MetaFields)

ConcFrame1 ==
    [kind |-> "object", id |-> IdUint(0, 0, 1),
     data |-> [kind |-> "string", s |-> <<"1", "1">>]]
ConcFrame2 ==
    [kind |-> "object", id |-> IdUint(0, 0, 2), data |-> [kind |-> "string", s |-> <<>>]]

\* the documents of the concurrent callers: frames with a valid id and
\* payload, with an empty meta object or none
ConcBatches ==
    BatchesOf({[kind |-> "array", elems |-> es] :
                  es \in {<<>>, <<ConcFrame1>>, <<ConcFrame2>>,
                          <<ConcFrame1, ConcFrame2>>}},
              {NoMeta, MetaObject(<<>>)})

-----------------------------------------------------------------------------
(* Outcomes of a call *)

Ok(result) == [kind |-> "ok", msg |-> "", result |-> result]
Error(msg) == [kind |-> "error", msg |-> msg, result |-> EmptyMap]
\* a nil pointer dereference, or panic("implement me")
Panic(msg) == [kind |-> "panic", msg |-> msg, result |-> EmptyMap]

-----------------------------------------------------------------------------
(* fastjson and encoding/hex as Decode uses them *)

\* (*Value).Uint(): the number must be a decimal unsigned integer that fits
\* Go's uint, 32 or 64 bits wide
Uint(id) ==
    IF id.kind # "uint" THEN [err |-> TRUE, w |-> <<0, 0, 0>>]
    ELSE IF id.w[1] # 0 \/ (intSize = 32 /\ id.w[2] # 0)
         THEN [err |-> TRUE, w |-> <<0, 0, 0>>]
         ELSE [err |-> FALSE, w |-> id.w]

\* uint32(tid): the value modulo 2^32, its lowest digit
Uint32(w) == w[3]

\* rawFrame.Get("data").GetStringBytes(): nil unless the member is a string
GetStringBytes(e) ==
    IF e.kind = "object" /\ e.data.kind = "string" THEN e.data.s ELSE <<>>

HexDigits == <<"0", "1", "2", "3", "4", "5", "6", "7", "8", "9",
               "a", "b", "c", "d", "e", "f">>
HexUpper == <<"A", "B", "C", "D", "E", "F">>

\* encoding/hex's reverseHexTable: 255 for a byte that is no hex digit
fromHexChar(c) ==
    IF \E i \in DOMAIN HexDigits : HexDigits[i] = c
    THEN (CHOOSE i \in DOMAIN HexDigits : HexDigits[i] = c) - 1
    ELSE IF \E i \in DOMAIN HexUpper : HexUpper[i] = c
         THEN (CHOOSE i \in DOMAIN HexUpper : HexUpper[i] = c) + 9
         ELSE 255

RECURSIVE HexPairs(_, _)
\* hex.Decode's loop over the pairs from the j-th character on
HexPairs(src, j) ==
    IF j > Len(src) THEN [err |-> "", bytes |-> <<>>]
    ELSE IF fromHexChar(src[j]) > 15 THEN [err |-> "InvalidByteError", bytes |-> <<>>]
    ELSE IF j = Len(src) THEN [err |-> "ErrLength", bytes |-> <<>>]
    ELSE IF fromHexChar(src[j + 1]) > 15
         THEN [err |-> "InvalidByteError", bytes |-> <<>>]
    ELSE LET rest == HexPairs(src, j + 2)
         IN IF rest.err # "" THEN rest
            ELSE [err |-> "",
                  bytes |-> <<fromHexChar(src[j]) * 16 + fromHexChar(src[j + 1])>>
                            \o rest.bytes]

\* hex.Decode(decodedData, tdata)
hexDecode(src) == HexPairs(src, 1)

ZeroData == [i \in 1..DataLen |-> 0]

\* copy(pf.Frames[i].Data[:], decodedData): at most DataLen bytes
Copy(dst, src) == [i \in 1..DataLen |-> IF i <= Len(src) THEN src[i] ELSE dst[i]]

-----------------------------------------------------------------------------
(* Converter.Decode *)

Frame(id, data) == [ID |-> id, Data |-> data]

\* the body of "for i, rawFrame := range rawFrames" for one element.
\* rawFrame.Get("id") is nil when the element is no object or has no id, and
\* Uint() on the nil *Value dereferences it.  GetStringBytes sets no err, so
\* the test that follows it still sees the nil err of Uint().
ParseFrame(e) ==
    IF e.kind # "object" \/ e.id.kind = "absent"
    THEN Panic("nil pointer dereference: id")
    ELSE LET tid == Uint(e.id)
         IN IF tid.err THEN Error("frame id should be uint")
            ELSE LET h == hexDecode(GetStringBytes(e))
                 IN IF h.err # "" THEN Error("frame data should be hex string")
                    ELSE Ok(Frame(Uint32(tid.w), Copy(ZeroData, h.bytes)))

RECURSIVE ParseFrames(_)
\* the loop over rawFrames: the first element that fails ends the call
ParseFrames(elems) ==
    IF elems = <<>> THEN Ok(<<>>)
    ELSE LET f == ParseFrame(Head(elems))
         IN IF f.kind # "ok" THEN f
            ELSE LET rest == ParseFrames(Tail(elems))
                 IN IF rest.kind # "ok" THEN rest
                    ELSE Ok(<<f.result>> \o rest.result)

RECURSIVE VisitMeta(_)
\* metaObj.Visit: numbers, strings and booleans are kept, other types skipped
VisitMeta(entries) ==
    IF entries = <<>> THEN EmptyMap
    ELSE LET e == Head(entries)
             rest == VisitMeta(Tail(entries))
         IN IF e.t \in {"number", "string", "true", "false"}
            THEN rest @@ (e.k :> e.t) ELSE rest

\* Decode up to "result := make(...)": the packedFrames, or how the call ends.
\* pf.Frames comes from make and is never nil, whatever its length.
Parse(b) ==
    IF b.top = "malformed" THEN Error("received")
    ELSE IF b.top # "object" THEN Error("should be object")
    ELSE IF b.frames.kind = "absent" THEN Panic("nil pointer dereference: frames")
    ELSE IF b.frames.kind # "array" THEN Error("should have frames array")
    ELSE LET fs == ParseFrames(b.frames.elems)
             framesIsNil == FALSE
         IN IF fs.kind # "ok" THEN fs
            ELSE IF framesIsNil THEN Error("no frames")
            ELSE IF b.meta.kind = "absent"
                 THEN Panic("nil pointer dereference: meta")
            ELSE IF b.meta.kind # "object" THEN Error("should have meta object")
            ELSE Ok([Frames |-> fs.result, Meta |-> VisitMeta(b.meta.entries)])

\* desc.DecodeToMap(&frame, result): the schema's signal, decoded from the
\* payload, is written over any earlier entry of its name
DecodeToMap(desc, frame, result) == (desc.Sig :> frame.Data) @@ result

\* Dispatch as it would be if a failed lookup were remembered in the table
DispatchCaching(mm, frame, result) ==
    IF frame.ID \in DOMAIN mm
    THEN [messages |-> mm, result |-> DecodeToMap(mm[frame.ID], frame, result)]
    ELSE [messages |-> mm @@ (frame.ID :> [ID |-> frame.ID, Sig |-> "a"]),
          result |-> result]

\* the body of "for _, frame := range pf.Frames": the table and the result
\* after it
Dispatch(mm, frame, result) ==
    IF frame.ID \in DOMAIN mm
    THEN [messages |-> mm, result |-> DecodeToMap(mm[frame.ID], frame, result)]
    ELSE [messages |-> mm, result |-> result]

RECURSIVE DispatchAll(_, _, _)
DispatchAll(mm, frames, result) ==
    IF frames = <<>> THEN result
    ELSE DispatchAll(mm, Tail(frames), Dispatch(mm, Head(frames), result).result)

\* Decode as a function of its input and the table
Decode(b, mm) ==
    LET p == Parse(b)
    IN IF p.kind # "ok" THEN p ELSE Ok(DispatchAll(mm, p.result.Frames, EmptyMap))

NoBatch == [top |-> "malformed", frames |-> NoFrames, meta |-> NoMeta]
NoPf == [Frames |-> <<>>, Meta |-> EmptyMap]

Idle ==
    [pc |-> "idle", op |-> "", in |-> NoBatch, pf |-> NoPf, i |-> 1,
     result |-> EmptyMap, out |-> Ok(EmptyMap)]

\* a caller enters Decode with one of the documents: it is parsed into pf,
\* or the call ends with an error or a panic
DecodeCall(c, batches) ==
    /\ ctor.pc = "ready"
    /\ call[c].pc = "idle"
    /\ \E b \in batches :
         LET p == Parse(b)
         IN call' = [call EXCEPT ![c] =
                       IF p.kind # "ok"
                       THEN [Idle EXCEPT !.pc = "done", !.op = "Decode", !.in = b, !.out = p]
                       ELSE [Idle EXCEPT !.pc = "dispatch", !.op = "Decode", !.in = b,
                                         !.pf = p.result]]
    /\ UNCHANGED <<intSize, ctor, messages>>

\* one iteration of the dispatch loop
DecodeDispatch(c) ==
    /\ call[c].pc = "dispatch"
    /\ call[c].i <= Len(call[c].pf.Frames)
    /\ LET d == Dispatch(messages, call[c].pf.Frames[call[c].i], call[c].result)
       IN /\ messages' = d.messages
          /\ call' = [call EXCEPT ![c].result = d.result, ![c].i = call[c].i + 1]
    /\ UNCHANGED <<intSize, ctor>>

\* return result, nil
DecodeReturn(c) ==
    /\ call[c].pc = "dispatch"
    /\ call[c].i > Len(call[c].pf.Frames)
    /\ call' = [call EXCEPT ![c].pc = "done", ![c].out = Ok(call[c].result)]
    /\ UNCHANGED <<intSize, ctor, messages>>

-----------------------------------------------------------------------------
(* Converter.Encode *)

EncodeValues == {EmptyMap, "a" :> ZeroData}

\* panic("implement me"), whatever the value
Encode(c) ==
    /\ ctor.pc = "ready"
    /\ call[c].pc = "idle"
    /\ \E v \in EncodeValues : call' = [call EXCEPT ![c] =
                  [Idle EXCEPT !.pc = "done", !.op = "Encode", !.out = Panic("implement me")]]
    /\ UNCHANGED <<intSize, ctor, messages>>

\* the caller has its outcome and may call again
Finish(c) ==
    /\ call[c].pc = "done"
    /\ call' = [call EXCEPT ![c] = Idle]
    /\ UNCHANGED <<intSize, ctor, messages>>

-----------------------------------------------------------------------------
(* Specifications *)

Callers == 1..NumCallers

\* the tables NewConverter can return
Tables == {NewConverter(p).mm : p \in {q \in DbcPaths : ~NewConverter(q).err}}

\* the state NewConverter leaves when it returns table t: one of the paths
\* that yield t, read to its end
CtorReady(t) ==
    LET path == CHOOSE p \in DbcPaths : ~NewConverter(p).err /\ NewConverter(p).mm = t
    IN [pc |-> "ready", path |-> path,
        files |-> IF path.kind = "dir" THEN Walk(path) ELSE path.files,
        n |-> Len(IF path.kind = "dir" THEN Walk(path) ELSE path.files) + 1,
        mm |-> t]

\* construction, from the call of NewConverter to its return
InitBuild ==
    /\ intSize \in {32, 64}
    /\ ctor \in {CtorStart(p) : p \in DbcPaths}
    /\ messages = EmptyMap
    /\ call = [c \in Callers |-> Idle]

NextBuild == Stat \/ LoadNext \/ Construct

SpecBuild == InitBuild /\ [][NextBuild]_vars

\* a constructed Converter and one caller
Init ==
    /\ intSize \in {32, 64}
    /\ \E t \in Tables : ctor = CtorReady(t) /\ messages = t
    /\ call = [c \in Callers |-> Idle]

Next ==
    \/ DecodeCall(1, Batches)
    \/ DecodeDispatch(1)
    \/ DecodeReturn(1)
    \/ Encode(1)
    \/ Finish(1)

Spec == Init /\ [][Next]_vars

\* a constructed Converter and several callers whose calls interleave
NextConc ==
    \E c \in Callers :
        \/ DecodeCall(c, ConcBatches)
        \/ DecodeDispatch(c)
        \/ DecodeReturn(c)
        \/ Finish(c)

SpecConc == Init /\ [][NextConc]_vars

-----------------------------------------------------------------------------
(* Properties of the table build *)

\* the sources compiled and merged so far, in compile order
Merged == SubSeq(ctor.files, 1, ctor.n - 1)

Defines(file, id) == \E k \in DOMAIN file.msgs : file.msgs[k].ID = id

\* the schemas a source gives an ID
SchemasOf(file, id) == {file.msgs[k] : k \in {j \in DOMAIN file.msgs : file.msgs[j].ID = id}}

\* the earliest merged source that defines id
Earliest(id) ==
    Merged[CHOOSE j \in DOMAIN Merged :
              /\ Defines(Merged[j], id)
              /\ \A i \in 1..(j - 1) : ~Defines(Merged[i], id)]

\* C5: after every merge step the table holds exactly the IDs the merged
\* sources define, each with the schema of the earliest source that defines
\* it; a build fails only on a path that is missing or a file that cannot be
\* read or compiled, never on a duplicate; the Converter gets that table.
FirstSourceWins ==
    /\ DOMAIN ctor.mm =
          {id \in MessageIDs : \E j \in DOMAIN Merged : Defines(Merged[j], id)}
    /\ \A id \in DOMAIN ctor.mm : ctor.mm[id] \in SchemasOf(Earliest(id), id)
    /\ ctor.pc = "failed" =>
          \/ ctor.path.kind = "missing"
          \/ ~ctor.files[ctor.n].read
          \/ ~ctor.files[ctor.n].compile
    /\ ctor.pc = "ready" => messages = ctor.mm /\ Merged = ctor.files

\* C5 witness: a build has ended in which the second source defines an ID of
\* the first with another schema, and the table holds the first one's
DuplicateMerged ==
    /\ ctor.pc = "ready"
    /\ Len(ctor.files) >= 2
    /\ \E id \in MessageIDs :
          /\ Defines(ctor.files[1], id)
          /\ Defines(ctor.files[2], id)
          /\ SchemasOf(ctor.files[2], id) \cap SchemasOf(ctor.files[1], id) = {}
          /\ messages[id] \in SchemasOf(ctor.files[1], id)

-----------------------------------------------------------------------------
(* Properties of Decode and Encode *)

DecodeDone(c) == call[c].pc = "done" /\ call[c].op = "Decode"

IsHexString(s) == Len(s) % 2 = 0 /\ \A i \in DOMAIN s : fromHexChar(s[i]) <= 15

\* an element the wire format allows: an id that fits 32 bits and an
\* even-length hex string
ValidElement(e) ==
    /\ e.kind = "object"
    /\ e.id.kind = "uint" /\ e.id.w[1] = 0 /\ e.id.w[2] = 0
    /\ e.data.kind = "string" /\ IsHexString(e.data.s)

ValidFrames(b) ==
    /\ b.top = "object"
    /\ b.frames.kind = "array"
    /\ b.frames.elems # <<>>
    /\ \A i \in DOMAIN b.frames.elems : ValidElement(b.frames.elems[i])

\* the wire format: valid frames, and a meta object or none
WellFormed(b) == ValidFrames(b) /\ b.meta.kind \in {"absent", "object"}

\* b is well formed, with a meta object, but for its i-th element
ButFor(b, i) ==
    /\ b.top = "object"
    /\ b.frames.kind = "array"
    /\ i \in DOMAIN b.frames.elems
    /\ \A j \in DOMAIN b.frames.elems : j # i => ValidElement(b.frames.elems[j])
    /\ b.meta.kind = "object"

\* the payload of a valid element: its bytes, then zeros
Payload(e) ==
    [i \in 1..DataLen |->
        IF 2 * i <= Len(e.data.s)
        THEN fromHexChar(e.data.s[2 * i - 1]) * 16 + fromHexChar(e.data.s[2 * i])
        ELSE 0]

RECURSIVE ExpectedSignals(_, _, _)
\* from result on, the signals of the elements whose ID is in table, in order
ExpectedSignals(elems, table, result) ==
    IF elems = <<>> THEN result
    ELSE LET e == Head(elems)
             id == e.id.w[3]
         IN ExpectedSignals(Tail(elems), table,
                IF id \in DOMAIN table
                THEN [n \in DOMAIN result \cup {table[id].Sig} |->
                         IF n = table[id].Sig THEN Payload(e) ELSE result[n]]
                ELSE result)

\* C1: a batch whose frames array is empty ends in a schema error, never in
\* a successful empty mapping.  Stated for the batches with a meta object:
\* without meta the call ends as C4 says.
EmptyFramesRejected ==
    \A c \in Callers :
        /\ DecodeDone(c)
        /\ call[c].in.top = "object"
        /\ call[c].in.frames.kind = "array"
        /\ call[c].in.frames.elems = <<>>
        /\ call[c].in.meta.kind = "object"
        => call[c].out.kind = "error"

\* C2: for every well-formed batch and every table Decode succeeds with the
\* mapping built from the empty one by the frames of known ID, in order.
DecodeFoldsKnownFrames ==
    \A c \in Callers :
        DecodeDone(c) /\ WellFormed(call[c].in)
        => /\ call[c].out.kind = "ok"
           /\ call[c].out.result =
                 ExpectedSignals(call[c].in.frames.elems, messages, EmptyMap)

\* The same for the well-formed batches that carry a meta object.
DecodeFoldsKnownFramesGivenMeta ==
    \A c \in Callers :
        DecodeDone(c) /\ WellFormed(call[c].in) /\ call[c].in.meta.kind = "object"
        => /\ call[c].out.kind = "ok"
           /\ call[c].out.result =
                 ExpectedSignals(call[c].in.frames.elems, messages, EmptyMap)

\* C3: Encode ends by returning a "not implemented" error, in no other way.
EncodeReturnsError ==
    \A c \in Callers :
        call[c].pc = "done" /\ call[c].op = "Encode" => call[c].out.kind = "error"

\* C4: a batch of valid frames without a meta key is accepted, with the
\* mapping the same frames give with an empty meta object.
MissingMetaAccepted ==
    \A c \in Callers :
        DecodeDone(c) /\ ValidFrames(call[c].in) /\ call[c].in.meta.kind = "absent"
        => /\ call[c].out.kind = "ok"
           /\ call[c].out = Decode([call[c].in EXCEPT !.meta = MetaObject(<<>>)], messages)

\* C7: an object whose frames key is absent, or is no array, ends in a
\* schema error returned to the caller.
MissingFramesRejected ==
    \A c \in Callers :
        /\ DecodeDone(c)
        /\ call[c].in.top = "object"
        /\ call[c].in.frames.kind \in {"absent", "notarray"}
        => call[c].out.kind = "error"

\* C8: a data string of odd length or with a character that is no hex digit,
\* in a frame at any position, ends the call in a schema error.
BadHexRejected ==
    \A c \in Callers :
        /\ DecodeDone(c)
        /\ call[c].in.top = "object"
        /\ call[c].in.frames.kind = "array"
        /\ \E i \in DOMAIN call[c].in.frames.elems :
              LET e == call[c].in.frames.elems[i]
              IN e.kind = "object" /\ e.data.kind = "string" /\ ~IsHexString(e.data.s)
        => call[c].out.kind = "error"

\* The same when every frame up to the one with the bad data string has an
\* id member.
BadHexRejectedGivenIds ==
    \A c \in Callers :
        /\ DecodeDone(c)
        /\ call[c].in.top = "object"
        /\ call[c].in.frames.kind = "array"
        /\ \E i \in DOMAIN call[c].in.frames.elems :
              /\ \A j \in 1..i : /\ call[c].in.frames.elems[j].kind = "object"
                                 /\ call[c].in.frames.elems[j].id.kind # "absent"
              /\ call[c].in.frames.elems[i].data.kind = "string"
              /\ ~IsHexString(call[c].in.frames.elems[i].data.s)
        => call[c].out.kind = "error"

\* C9: a frame whose id is 2^32 or more ends the call in a schema error and
\* is not dispatched to the schema of the ID it is congruent to.  Stated for
\* the batches that are well formed but for that id.
WideIdRejected ==
    \A c \in Callers :
        /\ DecodeDone(c)
        /\ \E i \in DOMAIN call[c].in.frames.elems :
              LET e == call[c].in.frames.elems[i]
              IN /\ ButFor(call[c].in, i)
                 /\ e.kind = "object"
                 /\ e.data.kind = "string" /\ IsHexString(e.data.s)
                 /\ e.id.kind = "uint"
                 /\ e.id.w[1] # 0 \/ e.id.w[2] # 0
                 /\ e.id.w[3] \in DOMAIN messages
        => call[c].out.kind = "error"

\* C10: a frame element whose data member is absent or no string ends the
\* call in a schema error and is not decoded as a frame of zero payload.
\* Stated for the batches that are well formed but for that member.
MissingDataRejected ==
    \A c \in Callers :
        /\ DecodeDone(c)
        /\ \E i \in DOMAIN call[c].in.frames.elems :
              LET e == call[c].in.frames.elems[i]
              IN /\ ButFor(call[c].in, i)
                 /\ e.kind = "object"
                 /\ e.data.kind \in {"absent", "notstring"}
                 /\ e.id.kind = "uint" /\ e.id.w[1] = 0 /\ e.id.w[2] = 0
                 /\ e.id.w[3] \in DOMAIN messages
        => call[c].out.kind = "error"

\* C6: whatever calls interleave, the table stays the one NewConverter
\* built, every finished Decode has the outcome its own input and that table
\* determine, and two finished calls with the same input have the same
\* outcome.
DecodeIndependent ==
    /\ messages = NewConverter(ctor.path).mm
    /\ \A c \in Callers :
          DecodeDone(c) => call[c].out = Decode(call[c].in, NewConverter(ctor.path).mm)
    /\ \A c1, c2 \in Callers :
          DecodeDone(c1) /\ DecodeDone(c2) /\ call[c1].in = call[c2].in
          => call[c1].out = call[c2].out

\* C6 witness: one caller has its signals while another, given the same
\* input, is still in its dispatch loop, past a frame of unknown ID
InterleavedCalls ==
    \E c1, c2 \in Callers :
        /\ c1 # c2
        /\ DecodeDone(c1)
        /\ call[c1].out.kind = "ok"
        /\ call[c2].pc = "dispatch"
        /\ call[c2].in = call[c1].in
        /\ call[c2].i > 1
        /\ call[c2].pf.Frames[1].ID \notin DOMAIN messages

====
